---- MODULE Spec2Model ----
(***************************************************************************)
(* Model of the localization layer (localization.rs) and the pacman call   *)
(* sugar (pacman.rs) of the aura executable.                               *)
(*                                                                         *)
(* Text is modelled as a sequence of one-character strings wherever the    *)
(* code looks inside it (entry names, language tags), and as a sequence of *)
(* pieces (rendered messages, " - ", "\n") where the code only glues it.   *)
(***************************************************************************)
EXTENDS Integers, Sequences, FiniteSets, TLC

VARIABLES
    Translations,   \* the embedded i18n folder: entry name -> file
    fll,            \* the loader the caller renders with
    op,             \* the function that ran last
    arg,            \* its input
    ret,            \* its result
    spawned,        \* the command line handed to the operating system
    inner,          \* inside an install wrapper: what sudo_pacman returned
    log             \* what the `log` facade has received so far

vars == <<Translations, fll, op, arg, ret, spawned, inner, log>>

(***************************************************************************)
(* Bounds of the exploration.                                              *)
(***************************************************************************)
MaxEntries == 2     \* embedded entries besides the base catalog
MaxMsgs == 2        \* messages in one non-base catalog
MaxExtra == 1       \* base-catalog messages beyond the ones `fl!` names
MaxSubs == 2        \* sub-errors held by one Resolutions value
MaxArgs == 1        \* length of a flags / args vector
MaxExit == 2        \* largest exit code a child reports
MaxLog == 2         \* log records kept

(***************************************************************************)
(* Characters.                                                             *)
(***************************************************************************)
Lower == <<"a","b","c","d","e","f","g","h","i","j","k","l","m",
           "n","o","p","q","r","s","t","u","v","w","x","y","z">>
Upper == <<"A","B","C","D","E","F","G","H","I","J","K","L","M",
           "N","O","P","Q","R","S","T","U","V","W","X","Y","Z">>

LowerSet == {Lower[i] : i \in 1..26}
UpperSet == {Upper[i] : i \in 1..26}
Punctuation == {"-", ".", "/", "_"}
Chars == LowerSet \cup UpperSet \cup Punctuation

IsLower(c) == c \in LowerSet
IsUpper(c) == c \in UpperSet
IsAlpha(c) == IsLower(c) \/ IsUpper(c)
IsSep(c) == c \in {"-", "_"}

\* The place of a letter in the alphabet.
LetterIndex == [c \in LowerSet \cup UpperSet |->
                    CHOOSE i \in 1..26 : Lower[i] = c \/ Upper[i] = c]

ToLower(c) == IF IsUpper(c) THEN Lower[LetterIndex[c]] ELSE c
ToUpper(c) == IF IsLower(c) THEN Upper[LetterIndex[c]] ELSE c

\* The byte value of a character (only the order of the values is used).
ByteOf == [c \in Chars |->
            IF c \in UpperSet THEN 64 + LetterIndex[c]
            ELSE IF c \in LowerSet THEN 96 + LetterIndex[c]
            ELSE CASE c = "-" -> 45
                   [] c = "." -> 46
                   [] c = "/" -> 47
                   [] c = "_" -> 95]

Byte(c) == ByteOf[c]

\* `to_ascii_lowercase` / `to_ascii_uppercase` of a subtag.
LowerCase(s) == [i \in 1..Len(s) |-> ToLower(s[i])]
UpperCase(s) == [i \in 1..Len(s) |-> ToUpper(s[i])]

\* Byte-wise lexicographic order of two texts.
RECURSIVE StrLess(_, _)
StrLess(s, t) ==
    IF t = <<>> THEN FALSE
    ELSE IF s = <<>> THEN TRUE
    ELSE IF Byte(Head(s)) # Byte(Head(t)) THEN Byte(Head(s)) < Byte(Head(t))
    ELSE StrLess(Tail(s), Tail(t))

(***************************************************************************)
(* Rendered text is a sequence of pieces: a newline, a literal, or (see    *)
(* fl below) a formatted message.                                          *)
(***************************************************************************)
NL == [piece |-> "newline"]
Lit(t) == [piece |-> "lit", text |-> t]

(***************************************************************************)
(* unic_langid::LanguageIdentifier, as far as a five-byte text reaches it: *)
(* a language subtag and an optional region (<<>> is None).                *)
(***************************************************************************)
None == [tag |-> "None"]

LangId(l, r) == [language |-> l, region |-> r]

\* `str::parse::<LanguageIdentifier>` on the five bytes `l[0..5]`.  Subtags
\* are split at '-' or '_'; the language is 2, 3 or 5..8 letters and is
\* lower-cased; a two-letter second subtag is a region and is upper-cased.
\* Nothing else fits in five bytes.
ParseLangId(s) ==
    IF Len(s) = 5 /\ \A i \in 1..5 : IsAlpha(s[i])
        THEN LangId(LowerCase(s), <<>>)
    ELSE IF /\ Len(s) = 5
            /\ IsSep(s[3])
            /\ \A i \in {1, 2, 4, 5} : IsAlpha(s[i])
        THEN LangId(LowerCase(SubSeq(s, 1, 2)), UpperCase(SubSeq(s, 4, 5)))
    ELSE None

\* `Display for LanguageIdentifier`.
LangIdToString(l) ==
    IF l.region = <<>> THEN l.language ELSE l.language \o <<"-">> \o l.region

\* `Ord for LanguageIdentifier` (derived: language first, then region).
LangLess(a, b) ==
    \/ StrLess(a.language, b.language)
    \/ a.language = b.language /\ StrLess(a.region, b.region)

(***************************************************************************)
(* The embedded folder.                                                    *)
(***************************************************************************)
EnUS == LangId(<<"e","n">>, <<"U","S">>)
JaJP == LangId(<<"j","a">>, <<"J","P">>)
DeDE == LangId(<<"d","e">>, <<"D","E">>)
FrFR == LangId(<<"f","r">>, <<"F","R">>)

\* The fallback language `fluent_language_loader!()` reads from i18n.toml.
FallbackLanguage == EnUS

\* The Fluent domain is the crate name.
DomainFile == <<"/","a","u","r","a",".","f","t","l">>

\* i18n-embed looks a language up under "<tag>/<domain>.ftl".
LanguageFile(l) == LangIdToString(l) \o DomainFile

BaseName == LanguageFile(EnUS)

\* Message ids the source names in `fl!`; the macro refuses to compile
\* unless the fallback catalog defines each of them.
FlIds == <<"git-io", "git-clone", "git-pull", "git-diff", "git-hash",
           "faur-fetch", "faur-unknown", "faur-too-many",
           "err-mutex", "err-pool-get", "err-srcinfo", "dep-multi",
           "dep-exist", "dep-exist-par", "dep-graph", "dep-cycle",
           "pacman-external", "pacman-u", "pacman-s", "pacman-misc">>

\* Ids a catalog may carry besides.
OtherIds == {"zz-stale"}

\* Ids tried in the non-base catalogs.
SampleIds == {"dep-multi", "zz-stale"}

RECURSIVE SeqsUpTo(_, _)
SeqsUpTo(S, n) ==
    IF n = 0 THEN {<<>>}
    ELSE LET shorter == SeqsUpTo(S, n - 1)
         IN shorter \cup {Append(s, x) : s \in {t \in shorter : Len(t) = n - 1}, x \in S}

Range(s) == {s[i] : i \in 1..Len(s)}

\* A file: whether its bytes are UTF-8, and the ids of its messages in file
\* order.
File(u, m) == [utf8 |-> u, msgs |-> m]

\* Entries whose content a loader can reach, and entries it cannot.
CatalogNames == {LanguageFile(JaJP), LanguageFile(DeDE)}
StrayNames ==
    { <<"j","a","_","j","p">> \o DomainFile,        \* ja_jp/aura.ftl
      <<"j","a","-","J","P","/","o","l","d",".","f","t","l">>,
      <<"R","E","A","D","M","E",".","m","d">>,
      <<"x",".","f","t","l">> }

BaseFiles == {File(TRUE, FlIds \o x) : x \in SeqsUpTo(OtherIds, MaxExtra)}
CatalogFiles ==
    {File(TRUE, m) : m \in SeqsUpTo(SampleIds, MaxMsgs)} \cup {File(FALSE, <<>>)}
StrayFiles == {File(TRUE, <<"zz-stale">>)}

NameSets == {S \in SUBSET (CatalogNames \cup StrayNames) : Cardinality(S) <= MaxEntries}

\* The folder with the entries S besides the base catalog.
Folder(S, base, ja, de, stray) ==
    [n \in S \cup {BaseName} |->
        IF n = BaseName THEN base
        ELSE IF n = LanguageFile(JaJP) THEN ja
        ELSE IF n = LanguageFile(DeDE) THEN de
        ELSE stray]

(***************************************************************************)
(* localization.rs: the catalog loaders.                                   *)
(***************************************************************************)
Ok(v) == [tag |-> "Ok", val |-> v]
Err(x) == [tag |-> "Err", err |-> x]
IsOk(r) == r.tag = "Ok"

\* `Translations::iter()`: the entry names, each once (in path order).
RECURSIVE TranslationsIter(_)
TranslationsIter(names) ==
    IF names = {} THEN <<>>
    ELSE LET first == CHOOSE n \in names : \A m \in names \ {n} : StrLess(n, m)
         IN <<first>> \o TranslationsIter(names \ {first})

\* `.filter_map(|l| l[0..5].parse().ok()).collect()`
RECURSIVE FilterMapParse(_)
FilterMapParse(names) ==
    IF names = <<>> THEN <<>>
    ELSE LET parsed == ParseLangId(SubSeq(Head(names), 1, 5))
         IN (IF parsed = None THEN <<>> ELSE <<parsed>>) \o FilterMapParse(Tail(names))

\* `Vec::sort`: a stable sort by `Ord`; equal elements are all kept.
RECURSIVE SortInsert(_, _)
SortInsert(x, sorted) ==
    IF sorted = <<>> THEN <<x>>
    ELSE IF LangLess(x, Head(sorted)) THEN <<x>> \o sorted
    ELSE <<Head(sorted)>> \o SortInsert(x, Tail(sorted))

RECURSIVE Sort(_)
Sort(v) ==
    IF v = <<>> THEN <<>> ELSE SortInsert(v[Len(v)], Sort(SubSeq(v, 1, Len(v) - 1)))

\* pub(crate) fn available_languages() -> Vec<LanguageIdentifier>
available_languages(T) == Sort(FilterMapParse(TranslationsIter(DOMAIN T)))

\* `fluent_language_loader!()`: a loader that has loaded nothing yet.
NewLoader == [fallback_language |-> FallbackLanguage, language_bundles |-> <<>>]

\* A bundle is created with Fluent's default: isolation marks on.
Bundle(l, file) == [language |-> l, msgs |-> file.msgs, use_isolating |-> TRUE]

\* `LanguageLoader::load_languages` of i18n-embed, for the requested ids
\* followed by the fallback language: a language without a file is skipped
\* unless it is the fallback, a file that is not UTF-8 is an error.
RECURSIVE LoadBundles(_, _, _)
LoadBundles(T, fallback, ids) ==
    IF ids = <<>> THEN Ok(<<>>)
    ELSE LET l == Head(ids)
             file_path == LanguageFile(l)
             rest == LoadBundles(T, fallback, Tail(ids))
         IN IF file_path \in DOMAIN T
                THEN IF ~T[file_path].utf8 THEN Err("ErrorParsingFileUtf8")
                     ELSE IF IsOk(rest) THEN Ok(<<Bundle(l, T[file_path])>> \o rest.val)
                     ELSE rest
            ELSE IF l = fallback THEN Err("LanguageNotAvailable")
            ELSE rest

\* The fallback language loaded ahead of the requested ones.
load_languages_fallback_first(T, loader, ids) ==
    LET all == <<loader.fallback_language>>
                \o SelectSeq(ids, LAMBDA l : l # loader.fallback_language)
        bundles == LoadBundles(T, loader.fallback_language, all)
    IN IF IsOk(bundles) THEN Ok([loader EXCEPT !.language_bundles = bundles.val])
       ELSE bundles

load_languages(T, loader, ids) ==
    LET all == IF loader.fallback_language \in Range(ids) THEN ids
               ELSE Append(ids, loader.fallback_language)
        bundles == LoadBundles(T, loader.fallback_language, all)
    IN IF IsOk(bundles) THEN Ok([loader EXCEPT !.language_bundles = bundles.val])
       ELSE bundles

\* `FluentLanguageLoader::set_use_isolating`: acts on the bundles loaded.
set_use_isolating(loader, v) ==
    [loader EXCEPT !.language_bundles =
        [i \in 1..Len(@) |-> [@[i] EXCEPT !.use_isolating = v]]]

\* `LanguageLoader::current_language`: the first bundle's language.
current_language(loader) ==
    IF loader.language_bundles = <<>> THEN loader.fallback_language
    ELSE loader.language_bundles[1].language

\* pub(crate) fn load(lang: Option<LanguageIdentifier>)
load(T, lang) ==
    LET loader == NewLoader
        wanted == IF lang = None THEN loader.fallback_language ELSE lang
        loaded == load_languages(T, loader, <<wanted>>)
    IN IF IsOk(loaded) THEN Ok(set_use_isolating(loaded.val, FALSE)) ELSE loaded

\* One element of the iterator `load_all` collects: (lang, loader) or the error.
LoadOne(T, lang) == load_languages(T, NewLoader, <<lang>>)

\* A collection that leaves out the languages that fail to load.
RECURSIVE CollectLoadersSkipFailed(_, _, _)
CollectLoadersSkipFailed(T, langs, map) ==
    IF langs = <<>> THEN Ok(map)
    ELSE LET lang == Head(langs)
             one == LoadOne(T, lang)
         IN IF IsOk(one)
                THEN CollectLoadersSkipFailed(T, Tail(langs),
                        [k \in DOMAIN map \cup {lang} |->
                            IF k = lang THEN one.val ELSE map[k]])
            ELSE CollectLoadersSkipFailed(T, Tail(langs), map)

\* `.collect::<Result<HashMap<_, _>, _>>()`: the first error ends the
\* collection; a key met again replaces its value.
RECURSIVE CollectLoaders(_, _, _)
CollectLoaders(T, langs, map) ==
    IF langs = <<>> THEN Ok(map)
    ELSE LET lang == Head(langs)
             one == LoadOne(T, lang)
         IN IF IsOk(one)
                THEN CollectLoaders(T, Tail(langs),
                        [k \in DOMAIN map \cup {lang} |->
                            IF k = lang THEN one.val ELSE map[k]])
            ELSE one

\* pub(crate) fn load_all()
load_all(T) == CollectLoaders(T, available_languages(T), <<>>)

\* `FluentLanguageLoader::with_message_iter`: the messages of the bundles of
\* one language, in file order.
RECURSIVE MessagesOf(_, _)
MessagesOf(bundles, lang) ==
    IF bundles = <<>> THEN <<>>
    ELSE (IF Head(bundles).language = lang THEN Head(bundles).msgs ELSE <<>>)
            \o MessagesOf(Tail(bundles), lang)

with_message_iter(loader, lang) == MessagesOf(loader.language_bundles, lang)

\* `FluentLanguageLoader::has`: some loaded bundle defines the message.
has(loader, id) ==
    \E i \in 1..Len(loader.language_bundles) : id \in Range(loader.language_bundles[i].msgs)

Passed == [tag |-> "passed"]
PanicUnwrap(x) == [tag |-> "panic", err |-> x, what |-> "unwrap"]
PanicExtra(lang, id) == [tag |-> "panic", lang |-> lang, id |-> id, what |-> "extra"]

\* A loop that stops after the first message.
FirstExtraHeadOnly(english, msgs) ==
    IF msgs # <<>> /\ ~has(english, Head(msgs)) THEN [tag |-> "Some", id |-> Head(msgs)]
    ELSE None

\* The `for msg in msgs` loop: the first message English lacks, if any.
RECURSIVE FirstExtra(_, _)
FirstExtra(english, msgs) ==
    IF msgs = <<>> THEN None
    ELSE IF ~has(english, Head(msgs)) THEN [tag |-> "Some", id |-> Head(msgs)]
    ELSE FirstExtra(english, Tail(msgs))

\* The `for lang in available_languages()` loop.
RECURSIVE CheckLangs(_, _, _)
CheckLangs(english, all, langs) ==
    IF langs = <<>> THEN Passed
    ELSE LET lang == Head(langs)
             extra == FirstExtra(english, with_message_iter(all[lang], lang))
         IN IF extra = None THEN CheckLangs(english, all, Tail(langs))
            ELSE PanicExtra(lang, extra.id)

\* #[test] fn no_extra_localizations()
no_extra_localizations(T) ==
    LET english == load(T, None)
        all == load_all(T)
    IN IF ~IsOk(english) THEN PanicUnwrap(english.err)
       ELSE IF ~IsOk(all) THEN PanicUnwrap(all.err)
       ELSE CheckLangs(english.val, all.val, available_languages(T))

(***************************************************************************)
(* Formatting a message.                                                   *)
(***************************************************************************)
\* `fl!(fll, id, name = value, ...)`: the first loaded bundle that defines
\* the message formats it; a bundle with isolation on wraps each argument
\* in directional isolation marks.
fl(loader, id, args) ==
    LET bundles == loader.language_bundles
        hits == {i \in 1..Len(bundles) : id \in Range(bundles[i].msgs)}
    IN IF hits = {} THEN <<[piece |-> "missing", id |-> id]>>
       ELSE LET b == bundles[CHOOSE i \in hits : \A j \in hits : i <= j]
            IN <<[piece |-> "msg", lang |-> b.language, id |-> id,
                  args |-> args, isolating |-> b.use_isolating]>>

NoArgs == <<>>
Named(n, v) == <<n, v>>

\* A separator after every item, the last one too.
RECURSIVE IntersperseTrailing(_, _)
IntersperseTrailing(items, sep) ==
    IF items = <<>> THEN <<>>
    ELSE <<Head(items), sep>> \o IntersperseTrailing(Tail(items), sep)

\* `itertools::intersperse(i, sep)`
RECURSIVE Intersperse(_, _)
Intersperse(items, sep) ==
    IF Len(items) <= 1 THEN items
    ELSE <<Head(items), sep>> \o Intersperse(Tail(items), sep)

\* `.collect::<String>()`
RECURSIVE Collect(_)
Collect(items) == IF items = <<>> THEN <<>> ELSE Head(items) \o Collect(Tail(items))

(***************************************************************************)
(* The error values.                                                       *)
(***************************************************************************)
IoCauses == {"ENOENT", "EACCES"}
Paths == {"/a", "/b"}
Pkgs == {"foo", "bar"}

GitIo(c) == [type |-> "git", kind |-> "Io", cause |-> c]
GitClone(p) == [type |-> "git", kind |-> "Clone", path |-> p]
GitPull(p) == [type |-> "git", kind |-> "Pull", path |-> p]
GitDiff(p) == [type |-> "git", kind |-> "Diff", path |-> p]
GitReadHash(c) == [type |-> "git", kind |-> "ReadHash", cause |-> c]

AurGit(e) == [type |-> "aur", kind |-> "Git", e |-> e]
FaurFetch(p) == [type |-> "aur", kind |-> "FaurFetch", pkg |-> p]
PackageDoesNotExist(p) == [type |-> "aur", kind |-> "PackageDoesNotExist", pkg |-> p]
TooManyFaurResults(p) == [type |-> "aur", kind |-> "TooManyFaurResults", pkg |-> p]

PoisonedMutex == [type |-> "deps", kind |-> "PoisonedMutex"]
R2D2(c) == [type |-> "deps", kind |-> "R2D2", cause |-> c]
Srcinfo(p, c) == [type |-> "deps", kind |-> "Srcinfo", cause |-> c, path |-> p]
DepsGit(e) == [type |-> "deps", kind |-> "Git", e |-> e]
Resolutions(es) == [type |-> "deps", kind |-> "Resolutions", es |-> es]
DoesntExist(p) == [type |-> "deps", kind |-> "DoesntExist", pkg |-> p]
DoesntExistWithParent(a, b) ==
    [type |-> "deps", kind |-> "DoesntExistWithParent", pkg |-> a, par |-> b]
MalformedGraph == [type |-> "deps", kind |-> "MalformedGraph"]
CyclicDep(p) == [type |-> "deps", kind |-> "CyclicDep", pkg |-> p]
Faur(e) == [type |-> "deps", kind |-> "Faur", e |-> e]

ExternalCmd(c) == [type |-> "pacman", kind |-> "ExternalCmd", cause |-> c]
InstallFromTarball == [type |-> "pacman", kind |-> "InstallFromTarball"]
InstallFromRepos == [type |-> "pacman", kind |-> "InstallFromRepos"]
Misc == [type |-> "pacman", kind |-> "Misc"]

GitErrors ==
    {GitIo(c) : c \in IoCauses} \cup {GitClone(p) : p \in Paths}
        \cup {GitPull(p) : p \in Paths} \cup {GitDiff(p) : p \in Paths}
        \cup {GitReadHash(c) : c \in IoCauses}

AurErrors ==
    {AurGit(e) : e \in GitErrors} \cup {FaurFetch(p) : p \in Pkgs}
        \cup {PackageDoesNotExist(p) : p \in Pkgs} \cup {TooManyFaurResults(p) : p \in Pkgs}

DepsLeaves ==
    {PoisonedMutex, MalformedGraph} \cup {R2D2(c) : c \in IoCauses}
        \cup {Srcinfo(p, c) : p \in Paths, c \in IoCauses}
        \cup {DepsGit(e) : e \in GitErrors}
        \cup {DoesntExist(p) : p \in Pkgs}
        \cup {DoesntExistWithParent(a, b) : a \in Pkgs, b \in Pkgs}
        \cup {CyclicDep(p) : p \in Pkgs}
        \cup {Faur(e) : e \in AurErrors}

\* The sub-errors tried inside a Resolutions value: some leaves, and
\* Resolutions values of their own.
InnerSubs == {MalformedGraph, DepsGit(GitIo("ENOENT"))}
OuterSubs ==
    {DoesntExist("foo"), Faur(FaurFetch("bar"))} \cup InnerSubs
        \cup {Resolutions(es) : es \in SeqsUpTo(InnerSubs, MaxSubs)}

DepsErrors == DepsLeaves \cup {Resolutions(es) : es \in SeqsUpTo(OuterSubs, MaxSubs)}

PacmanErrors ==
    {ExternalCmd(c) : c \in IoCauses} \cup {InstallFromTarball, InstallFromRepos, Misc}

(***************************************************************************)
(* localization.rs: `Localised`.                                           *)
(***************************************************************************)
\* impl Localised for aura_core::git::Error
LocaliseGit(e, loader) ==
    CASE e.kind = "Io" -> fl(loader, "git-io", NoArgs)
      [] e.kind = "Clone" -> fl(loader, "git-clone", <<Named("dir", e.path)>>)
      [] e.kind = "Pull" -> fl(loader, "git-pull", <<Named("dir", e.path)>>)
      [] e.kind = "Diff" -> fl(loader, "git-diff", <<Named("file", e.path)>>)
      [] e.kind = "ReadHash" -> fl(loader, "git-hash", NoArgs)

\* impl Localised for aura_core::aur::Error
LocaliseAur(e, loader) ==
    CASE e.kind = "Git" -> LocaliseGit(e.e, loader)
      [] e.kind = "FaurFetch" -> fl(loader, "faur-fetch", <<Named("pkg", e.pkg)>>)
      [] e.kind = "PackageDoesNotExist" -> fl(loader, "faur-unknown", <<Named("pkg", e.pkg)>>)
      [] e.kind = "TooManyFaurResults" -> fl(loader, "faur-too-many", <<Named("pkg", e.pkg)>>)

\* impl<E> Localised for deps::Error<E>, with E the AUR error
RECURSIVE LocaliseDeps(_, _)
LocaliseDeps(e, loader) ==
    CASE e.kind = "PoisonedMutex" -> fl(loader, "err-mutex", NoArgs)
      [] e.kind = "R2D2" -> fl(loader, "err-pool-get", NoArgs)
      [] e.kind = "Srcinfo" -> fl(loader, "err-srcinfo", <<Named("file", e.path)>>)
      [] e.kind = "Git" -> LocaliseGit(e.e, loader)
      [] e.kind = "Resolutions" ->
            LET iter == [i \in 1..Len(e.es) |->
                            <<Lit(" - ")>> \o LocaliseDeps(e.es[i], loader)]
            IN Collect(Intersperse(<<fl(loader, "dep-multi", NoArgs), <<>>>> \o iter,
                                   <<NL>>))
      [] e.kind = "DoesntExist" -> fl(loader, "dep-exist", <<Named("pkg", e.pkg)>>)
      [] e.kind = "DoesntExistWithParent" ->
            fl(loader, "dep-exist-par", <<Named("pkg", e.pkg), Named("par", e.par)>>)
      [] e.kind = "MalformedGraph" -> fl(loader, "dep-graph", NoArgs)
      [] e.kind = "CyclicDep" -> fl(loader, "dep-cycle", <<Named("pkg", e.pkg)>>)
      [] e.kind = "Faur" -> LocaliseAur(e.e, loader)

\* The spawn failure's cause interpolated into its message.
LocalisePacmanWithCause(e, loader) ==
    CASE e.kind = "ExternalCmd" -> fl(loader, "pacman-external", <<Named("cause", e.cause)>>)
      [] e.kind = "InstallFromTarball" -> fl(loader, "pacman-u", NoArgs)
      [] e.kind = "InstallFromRepos" -> fl(loader, "pacman-s", NoArgs)
      [] e.kind = "Misc" -> fl(loader, "pacman-misc", NoArgs)

\* impl Localised for pacman::Error
LocalisePacman(e, loader) ==
    CASE e.kind = "ExternalCmd" -> fl(loader, "pacman-external", NoArgs)
      [] e.kind = "InstallFromTarball" -> fl(loader, "pacman-u", NoArgs)
      [] e.kind = "InstallFromRepos" -> fl(loader, "pacman-s", NoArgs)
      [] e.kind = "Misc" -> fl(loader, "pacman-misc", NoArgs)

(***************************************************************************)
(* pacman.rs.                                                              *)
(***************************************************************************)
Unit == [tag |-> "()"]

\* What `Command::status()` can come back with.
SpawnErr(c) == [tag |-> "SpawnErr", cause |-> c]
Exited(k) == [tag |-> "Exited", code |-> k]
Signaled == [tag |-> "Signaled"]

Statuses ==
    {SpawnErr(c) : c \in IoCauses} \cup {Exited(k) : k \in 0..MaxExit} \cup {Signaled}

\* Any exit counted as success.
success_any_exit(status) == status.tag = "Exited"

\* `ExitStatus::success`
success(status) == status.tag = "Exited" /\ status.code = 0

\* `.status().map_err(Error::ExternalCmd)?.success().then(|| ()).ok_or(Error::Misc)`
StatusToResult(status) ==
    IF status.tag = "SpawnErr" THEN Err(ExternalCmd(status.cause))
    ELSE IF success(status) THEN Ok(Unit)
    ELSE Err(Misc)

\* The command lines the three functions build.
pacman_cmd(args) == <<"pacman">> \o args
sudo_pacman_cmd(command, flags, args) == <<"sudo", "pacman", command>> \o flags \o args
sudo_pacman_batch_cmd(args) == <<"sudo", "pacman">> \o args

\* pub(crate) fn pacman / sudo_pacman / sudo_pacman_batch: each runs its
\* command line and maps the status the same way.
pacman(args, status) == StatusToResult(status)
sudo_pacman(command, flags, args, status) == StatusToResult(status)
sudo_pacman_batch(args, status) == StatusToResult(status)

\* The inner error passed through.
MapErrKeep(r, e) == r

\* `.map_err(|_| Error::InstallFromTarball)` and its sibling
MapErrTo(r, e) == IF IsOk(r) THEN r ELSE Err(e)

pacman_install_from_tarball(flags, args, status) ==
    MapErrTo(sudo_pacman("-U", flags, args, status), InstallFromTarball)

pacman_install_from_repos(flags, args, status) ==
    MapErrTo(sudo_pacman("-S", flags, args, status), InstallFromRepos)

\* impl Nested for Error: the records `nested` sends to the log.
nested(e) == IF e.kind = "ExternalCmd" THEN <<e.cause>> ELSE <<>>

(***************************************************************************)
(* The state machines.  Each action is one call of one function of the     *)
(* source; what it was given and what it returned are kept in arg and ret. *)
(***************************************************************************)
Idle ==
    /\ op = "init"
    /\ arg = None
    /\ ret = None
    /\ spawned = <<>>
    /\ inner = None
    /\ log = <<>>

\* -- the catalogs -------------------------------------------------------
LoadArgs == {None, EnUS, JaJP, DeDE, FrFR}

InitLoc ==
    /\ \E S \in NameSets, base \in BaseFiles, ja \in CatalogFiles,
          de \in CatalogFiles, stray \in StrayFiles :
            Translations = Folder(S, base, ja, de, stray)
    /\ fll = None
    /\ Idle

AvailableLanguages ==
    /\ op' = "available_languages"
    /\ arg' = None
    /\ ret' = available_languages(Translations)
    /\ UNCHANGED <<Translations, fll, spawned, inner, log>>

Load(lang) ==
    /\ op' = "load"
    /\ arg' = lang
    /\ ret' = load(Translations, lang)
    /\ UNCHANGED <<Translations, fll, spawned, inner, log>>

LoadAll ==
    /\ op' = "load_all"
    /\ arg' = None
    /\ ret' = load_all(Translations)
    /\ UNCHANGED <<Translations, fll, spawned, inner, log>>

NoExtraLocalizations ==
    /\ op' = "no_extra_localizations"
    /\ arg' = None
    /\ ret' = no_extra_localizations(Translations)
    /\ UNCHANGED <<Translations, fll, spawned, inner, log>>

NextLoc ==
    \/ AvailableLanguages
    \/ \E lang \in LoadArgs : Load(lang)
    \/ LoadAll
    \/ NoExtraLocalizations

SpecLoc == InitLoc /\ [][NextLoc]_vars

\* -- rendering ----------------------------------------------------------
\* The loaders a caller can hold: the one `load` returned for a request, or
\* one taken out of the map `load_all` returned.
LoadersOf(T) ==
    {load(T, l).val : l \in {l \in LoadArgs : IsOk(load(T, l))}}
        \cup (IF IsOk(load_all(T))
                THEN {load_all(T).val[k] : k \in DOMAIN load_all(T).val}
                ELSE {})

\* The folders rendering is tried with: the base catalog alone, or with a
\* Japanese catalog that translates none, one or two of the messages.
RenderCatalogs ==
    {File(TRUE, <<>>), File(TRUE, <<"dep-multi">>),
     File(TRUE, <<"git-io", "pacman-external">>)}

InitRender ==
    /\ \E S \in SUBSET {LanguageFile(JaJP)}, ja \in RenderCatalogs :
            Translations = Folder(S, File(TRUE, FlIds), ja, ja, ja)
    /\ fll \in LoadersOf(Translations)
    /\ Idle

\* An error value is rendered once, by the caller that received it.
Render(name, e, text) ==
    /\ op' = name
    /\ arg' = e
    /\ ret' = text
    /\ UNCHANGED <<Translations, fll, spawned, inner, log>>

RenderGit(e) == Render("git::Error::localise", e, LocaliseGit(e, fll))
RenderAur(e) == Render("aur::Error::localise", e, LocaliseAur(e, fll))
RenderDeps(e) == Render("deps::Error::localise", e, LocaliseDeps(e, fll))
RenderPacman(e) == Render("pacman::Error::localise", e, LocalisePacman(e, fll))

NextRender ==
    /\ op = "init"
    /\ \/ \E e \in GitErrors : RenderGit(e)
       \/ \E e \in AurErrors : RenderAur(e)
       \/ \E e \in DepsErrors : RenderDeps(e)
       \/ \E e \in PacmanErrors : RenderPacman(e)

SpecRender == InitRender /\ [][NextRender]_vars

\* -- pacman -------------------------------------------------------------
FlagVectors == SeqsUpTo({"--noconfirm"}, MaxArgs)
ArgVectors == SeqsUpTo({"pkg"}, MaxArgs)
Commands == {"-U", "-S", "-R"}

InitPacman ==
    /\ Translations = Folder({}, File(TRUE, FlIds), File(TRUE, <<>>),
                             File(TRUE, <<>>), File(TRUE, <<>>))
    /\ fll = None
    /\ Idle

Call(name, input, cmd, inRes, res) ==
    /\ op' = name
    /\ arg' = input
    /\ spawned' = cmd
    /\ inner' = inRes
    /\ ret' = res
    /\ UNCHANGED <<Translations, fll, log>>

CallPacman(args, status) ==
    Call("pacman", [args |-> args, status |-> status],
         pacman_cmd(args), None, pacman(args, status))

CallSudoPacman(command, flags, args, status) ==
    Call("sudo_pacman",
         [args |-> args, status |-> status, command |-> command, flags |-> flags],
         sudo_pacman_cmd(command, flags, args), None,
         sudo_pacman(command, flags, args, status))

CallSudoPacmanBatch(args, status) ==
    Call("sudo_pacman_batch", [args |-> args, status |-> status],
         sudo_pacman_batch_cmd(args), None, sudo_pacman_batch(args, status))

CallInstallFromTarball(flags, args, status) ==
    Call("pacman_install_from_tarball",
         [args |-> args, status |-> status, flags |-> flags],
         sudo_pacman_cmd("-U", flags, args),
         sudo_pacman("-U", flags, args, status),
         pacman_install_from_tarball(flags, args, status))

CallInstallFromRepos(flags, args, status) ==
    Call("pacman_install_from_repos",
         [args |-> args, status |-> status, flags |-> flags],
         sudo_pacman_cmd("-S", flags, args),
         sudo_pacman("-S", flags, args, status),
         pacman_install_from_repos(flags, args, status))

\* The caller reports the error it was handed: `Nested::nested`.
CallNested ==
    /\ ret # None
    /\ ~IsOk(ret)
    /\ Len(log) + Len(nested(ret.err)) <= MaxLog
    /\ log' = log \o nested(ret.err)
    /\ op' = "nested"
    /\ UNCHANGED <<Translations, fll, arg, ret, spawned, inner>>

NextPacman ==
    \/ \E a \in ArgVectors, s \in Statuses : CallPacman(a, s)
    \/ \E c \in Commands, f \in FlagVectors, a \in ArgVectors, s \in Statuses :
            CallSudoPacman(c, f, a, s)
    \/ \E a \in ArgVectors, s \in Statuses : CallSudoPacmanBatch(a, s)
    \/ \E f \in FlagVectors, a \in ArgVectors, s \in Statuses :
            CallInstallFromTarball(f, a, s)
    \/ \E f \in FlagVectors, a \in ArgVectors, s \in Statuses :
            CallInstallFromRepos(f, a, s)
    \/ CallNested

SpecPacman == InitPacman /\ [][NextPacman]_vars

(***************************************************************************)
(* Properties of the catalogs (checked under SpecLoc).                     *)
(***************************************************************************)
\* The catalog of a language: the messages of "<tag>/aura.ftl", if embedded.
Catalog(T, l) == IF LanguageFile(l) \in DOMAIN T THEN T[LanguageFile(l)].msgs ELSE <<>>

\* The ids of a language's catalog that the base catalog lacks.
ExtraIds(T, l) == Range(Catalog(T, l)) \ Range(T[BaseName].msgs)

\* The tags some entry name of the folder starts with.
ListedTags(T) == {ParseLangId(SubSeq(n, 1, 5)) : n \in DOMAIN T} \ {None}

Consistent(T) == \A l \in ListedTags(T) : ExtraIds(T, l) = {}

\* Every listed language's catalog file, where there is one, is UTF-8.
AllDecode(T) ==
    \A l \in ListedTags(T) : LanguageFile(l) \in DOMAIN T => T[LanguageFile(l)].utf8

\* C1 as stated: no_extra_localizations passes exactly when every catalog of
\* a listed language has only ids of the base catalog, and otherwise reports
\* a language and an id of its catalog that the base catalog lacks.
C1_PassesIffSubset ==
    op = "no_extra_localizations" =>
        /\ (ret = Passed) <=> Consistent(Translations)
        /\ ret # Passed =>
            /\ ret.what = "extra"
            /\ ret.id \in ExtraIds(Translations, ret.lang)

\* C1 amended: no_extra_localizations passes exactly when every listed
\* catalog file decodes and has only ids of the base catalog; if all decode
\* and some catalog has an id the base lacks, it reports a listed language
\* and an id of that language's catalog that the base lacks, and no language
\* before it has such an id; if a file does not decode, it fails on the
\* unwrap of load_all and reports no id.
C1_PassesIffLoadedSubset ==
    op = "no_extra_localizations" =>
        /\ (ret = Passed) <=> (AllDecode(Translations) /\ Consistent(Translations))
        /\ (AllDecode(Translations) /\ ~Consistent(Translations)) =>
            /\ ret.tag = "panic"
            /\ ret.what = "extra"
            /\ ret.lang \in ListedTags(Translations)
            /\ ret.id \in ExtraIds(Translations, ret.lang)
            /\ \A l \in ListedTags(Translations) :
                    LangLess(l, ret.lang) => ExtraIds(Translations, l) = {}
        /\ ~AllDecode(Translations) => ret = PanicUnwrap("ErrorParsingFileUtf8")

\* The German catalog is clean and the Japanese one has a stale id as its
\* second message: the check reports ja-JP and that id.
C1_Witness ==
    /\ op = "no_extra_localizations"
    /\ LanguageFile(DeDE) \in DOMAIN Translations
    /\ Catalog(Translations, JaJP) = <<"dep-multi", "zz-stale">>
    /\ ret = PanicExtra(JaJP, "zz-stale")

\* C2: a successful load is bound to the requested tag when its catalog is
\* embedded; when no tag is given or the tag has no catalog, load succeeds
\* and is bound to the base tag; load(None) equals load(Some(base)).
C2_LoadBinding ==
    op = "load" =>
        /\ (arg # None /\ LanguageFile(arg) \in DOMAIN Translations /\ IsOk(ret))
                => current_language(ret.val) = arg
        /\ (arg = None \/ LanguageFile(arg) \notin DOMAIN Translations)
                => (IsOk(ret) /\ current_language(ret.val) = FallbackLanguage)
        /\ arg = None => ret = load(Translations, FallbackLanguage)

C2_Witness ==
    /\ op = "load"
    /\ arg = JaJP
    /\ IsOk(ret)
    /\ current_language(ret.val) = JaJP
    /\ Len(ret.val.language_bundles) = 2

\* C7 as stated: available_languages returns the tags of the entry names in
\* strictly ascending order, each once.
C7_StrictlyAscending ==
    op = "available_languages" =>
        /\ \A i \in 1..Len(ret), j \in 1..Len(ret) : i < j => LangLess(ret[i], ret[j])
        /\ Range(ret) = ListedTags(Translations)

\* C8: when load_all succeeds its keys are exactly the listed tags and the
\* loader under a tag is the one built from a request for that tag; it
\* succeeds only if every listed catalog file decodes.
C8_LoadAllKeys ==
    op = "load_all" =>
        /\ IsOk(ret) <=> AllDecode(Translations)
        /\ IsOk(ret) =>
            /\ DOMAIN ret.val = ListedTags(Translations)
            /\ \A l \in DOMAIN ret.val :
                    /\ ret.val[l].fallback_language = FallbackLanguage
                    /\ current_language(ret.val[l]) =
                            (IF LanguageFile(l) \in DOMAIN Translations
                                THEN l ELSE FallbackLanguage)
                    /\ with_message_iter(ret.val[l], l) = Catalog(Translations, l)

C8_Witness ==
    /\ op = "load_all"
    /\ IsOk(ret)
    /\ DOMAIN ret.val = {DeDE, EnUS, JaJP}
    /\ Catalog(Translations, JaJP) # Catalog(Translations, DeDE)

\* C10 as stated: every loader load returns, and every loader in the map
\* load_all returns, has isolation marks switched off in all its bundles.
Isolating(loader) ==
    \E i \in 1..Len(loader.language_bundles) : loader.language_bundles[i].use_isolating

C10_NoIsolation ==
    /\ (op = "load" /\ IsOk(ret)) => ~Isolating(ret.val)
    /\ (op = "load_all" /\ IsOk(ret)) => \A l \in DOMAIN ret.val : ~Isolating(ret.val[l])

(***************************************************************************)
(* Properties of rendering (checked under SpecRender).                     *)
(***************************************************************************)
\* The lines of a text: what lies between its newlines.
RECURSIVE Lines(_)
Lines(s) ==
    IF \A i \in 1..Len(s) : s[i] # NL THEN <<s>>
    ELSE LET k == CHOOSE i \in 1..Len(s) : s[i] = NL /\ \A j \in 1..(i - 1) : s[j] # NL
         IN <<SubSeq(s, 1, k - 1)>> \o Lines(SubSeq(s, k + 1, Len(s)))

Header(loader) == fl(loader, "dep-multi", NoArgs)

Bullet(e, loader) == <<Lit(" - ")>> \o LocaliseDeps(e, loader)

\* Every sub-error renders on one line.
Flat(es, loader) == \A i \in 1..Len(es) : Len(Lines(LocaliseDeps(es[i], loader))) = 1

\* C3 as stated: a Resolutions value of N sub-errors renders as N+1
\* non-empty lines, the header and then the bullets in input order, with no
\* separator at the end.
C3_HeaderThenBullets ==
    (op = "deps::Error::localise" /\ arg.kind = "Resolutions" /\ Flat(arg.es, fll)) =>
        LET lines == Lines(ret)
        IN /\ Len(lines) = Len(arg.es) + 1
           /\ \A i \in 1..Len(lines) : lines[i] # <<>>
           /\ lines[1] = Header(fll)
           /\ \A i \in 1..Len(arg.es) : lines[i + 1] = Bullet(arg.es[i], fll)
           /\ ret[Len(ret)] # NL

\* The text that follows the header: for each sub-error in turn a newline
\* and its bullet.
RECURSIVE BulletLines(_, _)
BulletLines(es, loader) ==
    IF es = <<>> THEN <<>>
    ELSE <<NL>> \o Bullet(Head(es), loader) \o BulletLines(Tail(es), loader)

\* C3 amended: a Resolutions value of N sub-errors renders as the header, a
\* newline, an empty line, and then for each sub-error in input order a
\* newline and its dash-prefixed rendering; with one-line sub-errors that is
\* N+2 lines of which only the second is empty, and with N = 0 the text ends
\* with the separator.
C3_HeaderBlankBullets ==
    (op = "deps::Error::localise" /\ arg.kind = "Resolutions") =>
        /\ ret = Header(fll) \o <<NL>> \o BulletLines(arg.es, fll)
        /\ Flat(arg.es, fll) =>
            LET lines == Lines(ret)
            IN /\ Len(lines) = Len(arg.es) + 2
               /\ lines[1] = Header(fll)
               /\ lines[2] = <<>>
               /\ \A i \in 1..Len(arg.es) : lines[i + 2] = Bullet(arg.es[i], fll)
               /\ \A i \in 1..Len(lines) : i # 2 => lines[i] # <<>>
               /\ arg.es # <<>> => ret[Len(ret)] # NL
        /\ arg.es = <<>> => ret[Len(ret)] = NL

C3_Witness ==
    /\ op = "deps::Error::localise"
    /\ arg = Resolutions(<<DoesntExist("foo"), MalformedGraph>>)
    /\ Len(Lines(ret)) = 4

\* C9: the text of a spawn failure, of a git I/O failure and of a hash-read
\* failure is the same whatever the underlying cause.
C9_CauseNotRendered ==
    /\ (op = "pacman::Error::localise" /\ arg.kind = "ExternalCmd") =>
            \A c \in IoCauses : ret = LocalisePacman(ExternalCmd(c), fll)
    /\ (op = "git::Error::localise" /\ arg.kind \in {"Io", "ReadHash"}) =>
            \A c \in IoCauses : ret = LocaliseGit([arg EXCEPT !.cause = c], fll)
    /\ (op \in {"pacman::Error::localise", "git::Error::localise"}
            /\ arg.kind \in {"ExternalCmd", "Io", "ReadHash"}) =>
            \A i \in 1..Len(ret) : ret[i].piece = "msg" /\ ret[i].args = NoArgs

C9_Witness ==
    /\ op = "pacman::Error::localise"
    /\ arg = ExternalCmd("EACCES")
    /\ Len(ret) = 1
    /\ ret[1].id = "pacman-external"

(***************************************************************************)
(* Properties of the pacman calls (checked under SpecPacman).              *)
(***************************************************************************)
Wrappers == {"pacman_install_from_tarball", "pacman_install_from_repos"}
EntryPoints == {"pacman", "sudo_pacman", "sudo_pacman_batch"}

WrapperError(name) ==
    IF name = "pacman_install_from_tarball" THEN InstallFromTarball ELSE InstallFromRepos

\* C4: an install wrapper succeeds exactly when the inner elevated call
\* does; when it fails, for whatever reason, the wrapper returns its own
\* failure kind, never the spawn failure or the generic failure.
C4_WrapperKinds ==
    op \in Wrappers =>
        /\ IsOk(ret) <=> IsOk(inner)
        /\ IsOk(ret) <=> success(arg.status)
        /\ ~IsOk(ret) =>
            /\ ret.err = WrapperError(op)
            /\ ret.err.kind \notin {"ExternalCmd", "Misc"}

C4_Witness ==
    /\ op = "pacman_install_from_tarball"
    /\ arg.status = SpawnErr("ENOENT")
    /\ inner = Err(ExternalCmd("ENOENT"))
    /\ ret = Err(InstallFromTarball)

\* C5 as stated: when an install wrapper has replaced a failure of the inner
\* call, the log holds that failure; for a spawn failure, its I/O cause.
C5_LoggedBeforeDiscarded ==
    (op \in Wrappers /\ ~IsOk(inner)) =>
        /\ log # <<>>
        /\ inner.err.kind = "ExternalCmd" => inner.err.cause \in Range(log)

\* C6: each of pacman, sudo_pacman and sudo_pacman_batch returns the spawn
\* failure with its cause when the spawn fails, the generic failure when
\* the child ends otherwise than with code 0, and Ok(()) when it ends with
\* code 0.
C6_StatusMapping ==
    op \in EntryPoints =>
        /\ arg.status.tag = "SpawnErr" => ret = Err(ExternalCmd(arg.status.cause))
        /\ (arg.status.tag = "Exited" /\ arg.status.code # 0) => ret = Err(Misc)
        /\ (arg.status.tag = "Exited" /\ arg.status.code = 0) => ret = Ok(Unit)
        /\ ret \in {Ok(Unit), Err(Misc)} \cup {Err(ExternalCmd(c)) : c \in IoCauses}

C6_Witness ==
    /\ op = "sudo_pacman_batch"
    /\ arg.status = Exited(1)
    /\ spawned = <<"sudo", "pacman", "pkg">>
    /\ ret = Err(Misc)

====
